---- MODULE Spec2Model ----
(***************************************************************************)
(* Model of app/server/data_object/base_data_object.py: BaseDataObject,    *)
(* the data object that sequences calls to a database driver (the store)   *)
(* and a cache driver.                                                     *)
(*                                                                         *)
(* Reading of the source.  The methods call name-mangled helpers           *)
(* (__get_drivers, __load_from_cache, __set_to_cache,                      *)
(* __delete_from_cache); the model resolves each to the public method      *)
(* that carries its name (get_drivers, load_from_cache_by_uuid,            *)
(* set_to_cache, delete_from_cache).  create() and find_many() call the    *)
(* constructor without metadata_dict; the model passes the empty mapping.  *)
(* load_from_cache_by_uuid passes it as metadata=; the model passes it as  *)
(* metadata_dict.  The drivers are external: the store is a table of rows, *)
(* update/delete report the number of rows the filter matched, the cache   *)
(* keeps serialised snapshots and drops an entry when its ttl runs out.    *)
(*                                                                         *)
(* The batch cache helpers are modelled by their bodies:                   *)
(* set_batch_to_cache, whose signature puts parameters without a default   *)
(* after defaulted ones, delete_batch_from_cache, which names driver       *)
(* classes it does not receive, and load_from_cache_by_uuids, which ends   *)
(* after its batch_get.                                                    *)
(*                                                                         *)
(* Four specifications share the definitions.  Spec: one caller, whole     *)
(* calls, other writers of the table.  SpecSequential: one caller, whole   *)
(* calls, no other writer, a table with earlier rows.  SpecHelpers: the    *)
(* constructor and the cache helpers called directly.  SpecConcurrent:     *)
(* several callers, one driver call per step.                              *)
(*                                                                         *)
(* Not modelled: find_by_uuids, to_json, and the sharing of one prop_dict  *)
(* object between a caller and the object create() returns.                *)
(***************************************************************************)
EXTENDS Integers, Sequences, FiniteSets, TLC

\* ---------------------------------------------------------------- bounds
MaxEnt  == 1      \* data objects a caller holds at a time
MaxRows == 2      \* rows the table can hold
MaxUuid == 2      \* identities uuid4 produces in a run
MaxTtl  == 0      \* largest ttl a caller passes
MaxLimit == 1     \* largest limit a caller passes
MaxBatch == 2     \* longest list a caller passes to a batch helper
MaxCallers == 2   \* callers that run a method at the same time

\* ------------------------------------------------------------- constants
UUID_PROPERTY          == "uuid"
RECORD_EXISTS_METADATA == "record_exists"
CREATED_TS_METADATA    == "created_ts"
UPDATED_TS_METADATA    == "updated_ts"
METADATA_FIELDS == {RECORD_EXISTS_METADATA, CREATED_TS_METADATA, UPDATED_TS_METADATA}

TABLE_NAME        == "message"   \* cls.TABLE_NAME of the concrete data object
DEFAULT_CACHE_TTL == 5           \* cls.DEFAULT_CACHE_TTL of the concrete data object

None   == "None"                 \* Python None, as a property or metadata value
NoTtl  == -1                     \* ttl=None / limit=None
NoEnt  == [absent |-> TRUE]      \* None where a data object is expected
EmptyDict == [k \in {} |-> None] \* {}

NameProperty == "name"           \* a column of the table besides uuid
IdProperty   == "id"             \* the auto-increment row id of the table
PropNames    == {UUID_PROPERTY, NameProperty}
Names        == {"a", "b"}

Uuid(n)  == "u" \o ToString(n)   \* the n-th value of uuid.uuid4().hex
Uuids    == {Uuid(n) : n \in 1..MaxUuid}
\* the values a caller gives a property: an identity for uuid, a name for name
PropValues(prop_name) == IF prop_name = UUID_PROPERTY THEN Uuids ELSE Names
Ttls     == {NoTtl} \cup (0..MaxTtl)
Slots    == 1..MaxEnt
RowIds   == 1..MaxRows

\* the prop_dict arguments callers pass
PropDicts ==
  UNION {{f \in [D -> Names \cup Uuids] : \A k \in D : f[k] \in PropValues(k)} :
           D \in SUBSET PropNames}
Limits == {NoTtl} \cup (1..MaxLimit)

VARIABLES
  store,            \* the table: row id -> row (a field map) or NoEnt
  cache,            \* the cache: key -> [state, metadata, ttl], present keys only
  ents,             \* the data objects callers hold: slot -> object or NoEnt
  next_uuid,        \* how many uuids uuid4 has produced, plus one
  last,             \* the last call: its arguments, result and driver calls
  rt,               \* progress of a create / save / find_one sequence
  inflight          \* caller -> the method the caller is in and how far it got

vars == <<store, cache, ents, next_uuid, last, rt, inflight>>

\* ---------------------------------------------------------------- __init__
\* a variant of the next definition: self.metadata.update(metadata_dict),
\* which keeps every key the caller passed
BaseDataObject_update(prop_dict, metadata_dict) ==
  [state    |-> prop_dict,
   metadata |-> [k \in METADATA_FIELDS \cup DOMAIN metadata_dict |->
                   IF k \in DOMAIN metadata_dict THEN metadata_dict[k]
                   ELSE IF k = RECORD_EXISTS_METADATA THEN FALSE ELSE None]]

\* lines 77-90: state is prop_dict; metadata starts at the defaults and takes
\* the recognised keys of metadata_dict.
BaseDataObject(prop_dict, metadata_dict) ==
  [state    |-> prop_dict,
   metadata |-> [k \in METADATA_FIELDS |->
                   IF k \in DOMAIN metadata_dict THEN metadata_dict[k]
                   ELSE IF k = RECORD_EXISTS_METADATA THEN FALSE ELSE None]]

\* to_dict(): {'state': self.state, 'metadata': self.metadata}
to_dict(obj) == [state |-> obj.state, metadata |-> obj.metadata]

\* get_prop(): self.state[prop_name]; KeyError when the key is missing
HasProp(obj, prop_name) == prop_name \in DOMAIN obj.state
get_prop(obj, prop_name) == obj.state[prop_name]

\* a variant of the next definition: the format string without its second field
construct_cache_key_table(uuid) == TABLE_NAME \o "_uuid="

\* construct_cache_key(): '{0}_uuid={1}'.format(cls.TABLE_NAME, uuid)
construct_cache_key(uuid) == TABLE_NAME \o "_uuid=" \o uuid

\* ------------------------------------------------------------ store driver
\* The database driver is external.  A row is a field map over the table's
\* columns (a column never written is None); the row id is its place in the
\* table, matched by a filter on 'id'.
RowMatches(st, r, where_props) ==
  /\ st[r] # NoEnt
  /\ \A k \in DOMAIN where_props :
       IF k = IdProperty THEN where_props[k] = r
       ELSE k \in DOMAIN st[r] /\ st[r][k] = where_props[k]

MatchingRows(st, where_props) == {r \in RowIds : RowMatches(st, r, where_props)}

RECURSIVE RowsFrom(_, _, _)
RowsFrom(st, where_props, r) ==
  IF r > MaxRows THEN <<>>
  ELSE (IF RowMatches(st, r, where_props) THEN <<st[r]>> ELSE <<>>)
       \o RowsFrom(st, where_props, r + 1)

\* db_driver.find_by_fields(table_name, where_props, limit) -> records
find_by_fields(st, where_props, limit) ==
  LET all == RowsFrom(st, where_props, 1)
  IN  IF limit = NoTtl \/ limit >= Len(all) THEN all ELSE SubSeq(all, 1, limit)

\* db_driver.update_by_fields(table_name, value_props, where_props) -> count
update_by_fields_count(st, where_props) == Cardinality(MatchingRows(st, where_props))
\* a variant of update_by_fields: an update that fills the columns that are
\* None and keeps a value already there
update_by_fields_fill(st, value_props, where_props) ==
  [r \in RowIds |->
     IF RowMatches(st, r, where_props)
     THEN [k \in DOMAIN st[r] |->
             IF k \in DOMAIN value_props /\ st[r][k] = None
             THEN value_props[k] ELSE st[r][k]]
     ELSE st[r]]

\* a variant of the next definition: an update that stops at the first
\* matching row
update_by_fields_first(st, value_props, where_props) ==
  [r \in RowIds |->
     IF RowMatches(st, r, where_props)
        /\ \A q \in MatchingRows(st, where_props) : r <= q
     THEN [k \in DOMAIN st[r] |->
             IF k \in DOMAIN value_props THEN value_props[k] ELSE st[r][k]]
     ELSE st[r]]

update_by_fields(st, value_props, where_props) ==
  [r \in RowIds |->
     IF RowMatches(st, r, where_props)
     THEN [k \in DOMAIN st[r] |->
             IF k \in DOMAIN value_props THEN value_props[k] ELSE st[r][k]]
     ELSE st[r]]

\* db_driver.delete_by_fields(table_name, where_props) -> count
delete_by_fields_count(st, where_props) == Cardinality(MatchingRows(st, where_props))
delete_by_fields(st, where_props) ==
  [r \in RowIds |-> IF RowMatches(st, r, where_props) THEN NoEnt ELSE st[r]]

\* db_driver.insert(table_name, value_props) -> new row id, 0 when it fails
FreeRows(st) == {r \in RowIds : st[r] = NoEnt}
insert_id(st) == IF FreeRows(st) = {} THEN 0
                 ELSE CHOOSE r \in FreeRows(st) : \A q \in FreeRows(st) : r <= q
insert(st, value_props) ==
  IF insert_id(st) = 0 THEN st
  ELSE [st EXCEPT ![insert_id(st)] =
          [k \in PropNames |->
             IF k \in DOMAIN value_props THEN value_props[k] ELSE None]]

\* ------------------------------------------------------------ cache driver
\* The cache driver is external: get / set(key, value, ttl) / delete on a
\* key-value map that keeps a serialised copy of the value.
cache_get(c, key) == IF key \in DOMAIN c THEN c[key] ELSE NoEnt
cache_set(c, key, value, ttl) ==
  [k \in DOMAIN c \cup {key} |->
     IF k = key THEN [state |-> value.state, metadata |-> value.metadata, ttl |-> ttl]
     ELSE c[k]]
cache_delete(c, key) == [k \in DOMAIN c \ {key} |-> c[k]]

\* --------------------------------------------------- cache helper methods
\* a variant of set_to_cache: the entry is replaced when the key is in the
\* cache and not written when it is not
set_to_cache_replace(c, obj, ttl) ==
  IF TABLE_NAME \o "_uuid=" \o get_prop(obj, UUID_PROPERTY) \in DOMAIN c
  THEN cache_set(c, TABLE_NAME \o "_uuid=" \o get_prop(obj, UUID_PROPERTY),
                 to_dict(obj), IF ttl # NoTtl THEN ttl ELSE DEFAULT_CACHE_TTL)
  ELSE c

\* a variant of the next definition: ttl or DEFAULT_CACHE_TTL, which drops a ttl of 0
set_to_cache_ttl_falsy(ttl) == IF ttl > 0 THEN ttl ELSE DEFAULT_CACHE_TTL

\* set_to_cache(ttl): key from the object's uuid, value to_dict(), and
\* ttl = ttl if ttl is not None else self.DEFAULT_CACHE_TTL
set_to_cache_ttl(ttl) == IF ttl # NoTtl THEN ttl ELSE DEFAULT_CACHE_TTL
set_to_cache(c, obj, ttl) ==
  cache_set(c, construct_cache_key(get_prop(obj, UUID_PROPERTY)),
            to_dict(obj), set_to_cache_ttl(ttl))

\* a variant of the next definition: the entry is left in the cache
delete_from_cache_noop(c, obj) == c

\* a variant of the next definition: the delete uses the bare uuid as the key
delete_from_cache_rawkey(c, obj) == cache_delete(c, get_prop(obj, UUID_PROPERTY))

\* delete_from_cache(): cache_driver.delete(key of the object's uuid)
delete_from_cache(c, obj) ==
  cache_delete(c, construct_cache_key(get_prop(obj, UUID_PROPERTY)))

\* a variant of the next definition: the lookup uses the bare uuid as the key
load_from_cache_by_uuid_rawkey(c, uuid) ==
  LET cached_value == cache_get(c, uuid)
  IN  IF cached_value # NoEnt
      THEN BaseDataObject(cached_value.state, cached_value.metadata)
      ELSE NoEnt

\* load_from_cache_by_uuid(uuid): the object hydrated from the cached
\* state and metadata, None when the key is missing
load_from_cache_by_uuid(c, uuid) ==
  LET cached_value == cache_get(c, construct_cache_key(uuid))
  IN  IF cached_value # NoEnt
      THEN BaseDataObject(cached_value.state, cached_value.metadata)
      ELSE NoEnt

\* a variant of the next definition: a hit is written back to the cache, as
\* find_one does
load_from_cache_by_uuid_call_refresh(c, uuid) ==
  LET instance == load_from_cache_by_uuid(c, uuid)
  IN  [ret |-> instance,
       cache |-> IF instance # NoEnt THEN set_to_cache(c, instance, NoTtl) ELSE c,
       calls |-> IF instance # NoEnt THEN <<"cache.get", "cache.set">>
                 ELSE <<"cache.get">>]

\* the whole of load_from_cache_by_uuid(uuid): its result, the cache after it
\* and the driver calls it makes
load_from_cache_by_uuid_call(c, uuid) ==
  [ret |-> load_from_cache_by_uuid(c, uuid), cache |-> c, calls |-> <<"cache.get">>]

\* set_batch_to_cache(dataobjects, ttl): cache_items[key of DO's uuid] =
\* DO.to_dict() for each DO in turn, then batch_set(cache_items, ttl) with the
\* ttl as given
set_batch_to_cache_items(dataobjects) ==
  LET cache_keys == {construct_cache_key(get_prop(dataobjects[i], UUID_PROPERTY)) :
                       i \in 1..Len(dataobjects)}
      LastOf(key) == CHOOSE i \in 1..Len(dataobjects) :
                       /\ construct_cache_key(get_prop(dataobjects[i], UUID_PROPERTY)) = key
                       /\ \A j \in (i+1)..Len(dataobjects) :
                            construct_cache_key(get_prop(dataobjects[j], UUID_PROPERTY)) # key
  IN  [key \in cache_keys |-> to_dict(dataobjects[LastOf(key)])]
set_batch_to_cache(c, dataobjects, ttl) ==
  LET cache_items == set_batch_to_cache_items(dataobjects)
  IN  [k \in DOMAIN c \cup DOMAIN cache_items |->
         IF k \in DOMAIN cache_items
         THEN [state |-> cache_items[k].state, metadata |-> cache_items[k].metadata,
               ttl |-> ttl]
         ELSE c[k]]

\* delete_batch_from_cache(dataobjects): batch_delete of the keys of the
\* objects' uuids
delete_batch_from_cache_keys(dataobjects) ==
  {construct_cache_key(get_prop(dataobjects[i], UUID_PROPERTY)) :
     i \in 1..Len(dataobjects)}
delete_batch_from_cache(c, dataobjects) ==
  [k \in DOMAIN c \ delete_batch_from_cache_keys(dataobjects) |-> c[k]]

\* load_from_cache_by_uuids(uuids): batch_get of the keys of the uuids; the
\* method ends there and returns None
load_from_cache_by_uuids_keys(uuids) ==
  {construct_cache_key(uuids[i]) : i \in 1..Len(uuids)}
load_from_cache_by_uuids(c, uuids) == NoEnt

\* ------------------------------------------------------------ the methods
\* a variant of the next definition: prop_dict.setdefault, which keeps a uuid the caller passed
create_prop_dict_setdefault(prop_dict, n) ==
  [k \in DOMAIN prop_dict \cup {UUID_PROPERTY} |->
     IF k \in DOMAIN prop_dict THEN prop_dict[k] ELSE Uuid(n)]

\* create(): prop_dict[cls.UUID_PROPERTY] = uuid.uuid4().hex, in place
create_prop_dict(prop_dict, n) ==
  [k \in DOMAIN prop_dict \cup {UUID_PROPERTY} |->
     IF k = UUID_PROPERTY THEN Uuid(n) ELSE prop_dict[k]]

\* find_many(): one object per record of find_by_fields, no metadata given
find_many(st, prop_dict, limit) ==
  LET records == find_by_fields(st, prop_dict, limit)
  IN  [i \in 1..Len(records) |-> BaseDataObject(records[i], EmptyDict)]

\* a variant of the next definition: the cache is read whenever the filter names the uuid
find_one_checks_cache_any(prop_dict) == UUID_PROPERTY \in DOMAIN prop_dict

\* find_one(): the cache is read only when the filter is the uuid alone
find_one_checks_cache(prop_dict) == DOMAIN prop_dict = {UUID_PROPERTY}

\* find_one() as a function of the store and the cache: the object returned
\* (or NoEnt), the cache afterwards and the driver calls made
find_one(st, c, prop_dict, cache_ttl) ==
  LET instance == IF find_one_checks_cache(prop_dict)
                  THEN load_from_cache_by_uuid(c, prop_dict[UUID_PROPERTY])
                  ELSE NoEnt
      instance_list == find_many(st, prop_dict, 1)
  IN  IF find_one_checks_cache(prop_dict) /\ instance # NoEnt
      THEN [ret   |-> instance,
            cache |-> set_to_cache(c, instance, cache_ttl),
            calls |-> <<"cache.get", "cache.set">>]
      ELSE [ret   |-> IF Len(instance_list) > 0 THEN instance_list[1] ELSE NoEnt,
            cache |-> c,
            calls |-> (IF find_one_checks_cache(prop_dict)
                       THEN <<"cache.get">> ELSE <<>>)
                      \o <<"db.find_by_fields">>]

\* set_prop(): writes only a key the state already has
set_prop_ok(obj, prop_name) == prop_name \in DOMAIN obj.state

\* a variant of the next definition: self.state[prop_name] = prop_value
\* without the membership test, which adds a missing key
set_prop_upsert(obj, prop_name, prop_value) ==
  [obj EXCEPT !.state = [k \in DOMAIN obj.state \cup {prop_name} |->
                           IF k = prop_name THEN prop_value ELSE obj.state[k]]]

set_prop(obj, prop_name, prop_value) ==
  IF set_prop_ok(obj, prop_name)
  THEN [obj EXCEPT !.state = [obj.state EXCEPT ![prop_name] = prop_value]]
  ELSE obj

\* a variant of the next definition: any positive count is a success
save_update_ok_any(record_update_count) == record_update_count >= 1

\* save(): result = self if record_update_count == 1 else None
save_update_ok(record_update_count) == record_update_count = 1

\* a variant of the next definition: a count of zero is a success too
delete_ok_always(record_delete_count) == record_delete_count >= 0

\* delete(): if record_delete_count > 0
delete_ok(record_delete_count) == record_delete_count > 0

\* save() as a function of the store, the cache and the object: the object
\* returned (or NoEnt), the store and the cache afterwards, the driver calls
\* a variant of the next definition: the cache is written in the same breath
\* as the table, before the count is looked at
save_update_eager(st, c, obj, cache_ttl) ==
  LET where_props == [k \in {UUID_PROPERTY} |-> get_prop(obj, UUID_PROPERTY)]
      record_update_count == update_by_fields_count(st, where_props)
  IN  [store  |-> update_by_fields(st, obj.state, where_props),
       cache  |-> set_to_cache(c, obj, cache_ttl),
       count  |-> record_update_count,
       result |-> IF save_update_ok(record_update_count) THEN obj ELSE NoEnt]

\* save() up to its cache write, for an object with a uuid: the table after
\* update_by_fields, the cache (not touched yet), the count and the result
save_update(st, c, obj, cache_ttl) ==
  LET where_props == [k \in {UUID_PROPERTY} |-> get_prop(obj, UUID_PROPERTY)]
      record_update_count == update_by_fields_count(st, where_props)
  IN  [store  |-> update_by_fields(st, obj.state, where_props),
       cache  |-> c,
       count  |-> record_update_count,
       result |-> IF save_update_ok(record_update_count) THEN obj ELSE NoEnt]

save(st, c, obj, cache_ttl) ==
  LET where_props == [k \in {UUID_PROPERTY} |-> get_prop(obj, UUID_PROPERTY)]
      record_update_count == update_by_fields_count(st, where_props)
      new_record_id == insert_id(st)
      inserted == insert(st, obj.state)
      found == find_one(inserted, c, [k \in {IdProperty} |-> new_record_id], NoTtl)
      result == IF HasProp(obj, UUID_PROPERTY)
                THEN (IF save_update_ok(record_update_count) THEN obj ELSE NoEnt)
                ELSE (IF new_record_id > 0 THEN found.ret ELSE NoEnt)
      st1 == IF HasProp(obj, UUID_PROPERTY)
             THEN update_by_fields(st, obj.state, where_props)
             ELSE inserted
      calls == IF HasProp(obj, UUID_PROPERTY) THEN <<"db.update_by_fields">>
               ELSE <<"db.insert">> \o (IF new_record_id > 0 THEN found.calls ELSE <<>>)
  IN  IF result # NoEnt
      THEN [ret   |-> result, store |-> st1,
            cache |-> set_to_cache(c, result, cache_ttl),
            calls |-> calls \o <<"cache.set">>]
      ELSE [ret |-> NoEnt, store |-> st1, cache |-> c, calls |-> calls]

\* delete() as a function of the store, the cache and the object
delete(st, c, obj) ==
  LET where_props == [k \in {UUID_PROPERTY} |-> get_prop(obj, UUID_PROPERTY)]
      record_delete_count == delete_by_fields_count(st, where_props)
  IN  IF delete_ok(record_delete_count)
      THEN [ret   |-> TRUE, store |-> delete_by_fields(st, where_props),
            cache |-> delete_from_cache(c, obj),
            calls |-> <<"db.delete_by_fields", "cache.delete">>]
      ELSE [ret   |-> FALSE, store |-> delete_by_fields(st, where_props),
            cache |-> c, calls |-> <<"db.delete_by_fields">>]

\* ---------------------------------------------------------------- actions
NoRt == [stage |-> "none"]
Callers == 1..MaxCallers
Idle == [pc |-> "idle", op |-> "none", obj |-> NoEnt, ttl |-> NoTtl, count |-> 0,
         ret |-> NoEnt]

\* the uuids a caller can pass are those uuid4 has produced so far
Issued == {Uuid(n) : n \in 1..(next_uuid - 1)}
Known(P) == UUID_PROPERTY \in DOMAIN P => P[UUID_PROPERTY] \in Issued

Init ==
  /\ store = [r \in RowIds |-> NoEnt]
  /\ cache = EmptyDict
  /\ ents = [s \in Slots |-> NoEnt]
  /\ next_uuid = 1
  /\ last = [op |-> "init"]
  /\ rt = NoRt
  /\ inflight = [p \in Callers |-> Idle]

\* obj = cls.create(prop_dict), the caller keeping obj in slot d; create()
\* without prop_dict is create({}) the first time and create of the dict the
\* earlier calls left afterwards
Create(d, P) ==
  /\ Known(P)
  /\ next_uuid <= MaxUuid
  /\ LET obj == BaseDataObject(create_prop_dict(P, next_uuid), EmptyDict)
     IN  /\ ents' = [ents EXCEPT ![d] = obj]
         /\ last' = [op |-> "create", slot |-> d, prop_dict |-> P, ret |-> obj,
                     calls |-> <<>>]
         /\ rt' = [stage |-> "created", slot |-> d, prop_dict |-> P,
                   uuid |-> Uuid(next_uuid)]
  /\ next_uuid' = next_uuid + 1
  /\ UNCHANGED <<store, cache, inflight>>

\* objs = cls.find_many(prop_dict, limit), the caller keeping objs[i] in slot d
FindMany(d, P, limit) ==
  /\ Known(P)
  /\ LET instances == find_many(store, P, limit)
     IN  /\ last' = [op |-> "find_many", slot |-> d, ret |-> instances,
                     calls |-> <<"db.find_by_fields">>]
         /\ IF Len(instances) = 0 THEN ents' = ents
            ELSE \E i \in 1..Len(instances) : ents' = [ents EXCEPT ![d] = instances[i]]
  /\ rt' = NoRt
  /\ UNCHANGED <<store, cache, next_uuid, inflight>>

\* obj = cls.find_one(prop_dict, cache_ttl), the caller keeping obj in slot d
FindOne(d, P, cache_ttl) ==
  /\ Known(P)
  /\ LET r == find_one(store, cache, P, cache_ttl)
     IN  /\ cache' = r.cache
         /\ ents' = IF r.ret = NoEnt THEN ents ELSE [ents EXCEPT ![d] = r.ret]
         /\ last' = [op |-> "find_one", slot |-> d, prop_dict |-> P,
                     ttl |-> cache_ttl, ret |-> r.ret, calls |-> r.calls]
         /\ rt' = IF rt.stage = "saved" /\ P = [k \in {UUID_PROPERTY} |-> rt.uuid]
                  THEN [rt EXCEPT !.stage = "found"] ELSE NoRt
  /\ UNCHANGED <<store, next_uuid, inflight>>

\* ents[e].set_prop(prop_name, prop_value)
SetProp(e, prop_name, prop_value) ==
  /\ ents[e] # NoEnt
  /\ prop_name = UUID_PROPERTY => prop_value \in Issued
  /\ LET obj == set_prop(ents[e], prop_name, prop_value)
     IN  /\ ents' = [ents EXCEPT ![e] = obj]
         /\ last' = [op |-> "set_prop", slot |-> e, prop_name |-> prop_name,
                     prop_value |-> prop_value,
                     ret |-> set_prop_ok(ents[e], prop_name), calls |-> <<>>]
  /\ rt' = NoRt
  /\ UNCHANGED <<store, cache, next_uuid, inflight>>

\* ents[e].save(cache_ttl)
Save(e, cache_ttl) ==
  /\ ents[e] # NoEnt
  /\ LET r == save(store, cache, ents[e], cache_ttl)
     IN  /\ store' = r.store
         /\ cache' = r.cache
         /\ last' = [op |-> "save", slot |-> e, ttl |-> cache_ttl, ret |-> r.ret,
                     calls |-> r.calls]
  /\ rt' = IF rt.stage = "created" /\ rt.slot = e
           THEN [rt EXCEPT !.stage = "saved"] ELSE NoRt
  /\ UNCHANGED <<ents, next_uuid, inflight>>

\* ents[e].delete()
Delete(e) ==
  /\ ents[e] # NoEnt
  /\ LET r == delete(store, cache, ents[e])
     IN  /\ store' = r.store
         /\ cache' = r.cache
         /\ last' = [op |-> "delete", slot |-> e, ret |-> r.ret, calls |-> r.calls,
                     cached |-> construct_cache_key(get_prop(ents[e], UUID_PROPERTY))
                                  \in DOMAIN cache]
  /\ rt' = NoRt
  /\ UNCHANGED <<ents, next_uuid, inflight>>

\* another writer of the table inserts a row, under an identity that exists
\* already or under a new one
ExtInsert(r, n, name) ==
  /\ store[r] = NoEnt
  /\ n <= next_uuid /\ n <= MaxUuid
  /\ store' = [store EXCEPT ![r] =
                 [k \in PropNames |-> IF k = UUID_PROPERTY THEN Uuid(n) ELSE name]]
  /\ next_uuid' = IF n = next_uuid THEN next_uuid + 1 ELSE next_uuid
  /\ last' = [op |-> "ext_insert"]
  /\ rt' = NoRt
  /\ UNCHANGED <<cache, ents, inflight>>

\* another writer of the table deletes a row
ExtDelete(r) ==
  /\ store[r] # NoEnt
  /\ store' = [store EXCEPT ![r] = NoEnt]
  /\ last' = [op |-> "ext_delete"]
  /\ rt' = NoRt
  /\ UNCHANGED <<cache, ents, next_uuid, inflight>>

\* the cache backend drops an entry whose ttl has run out
Expire(key) ==
  /\ key \in DOMAIN cache
  /\ cache' = cache_delete(cache, key)
  /\ last' = [op |-> "expire"]
  /\ rt' = NoRt
  /\ UNCHANGED <<store, ents, next_uuid, inflight>>

Next ==
  \/ \E d \in Slots, P \in PropDicts : Create(d, P)
  \/ \E d \in Slots, P \in PropDicts, limit \in Limits : FindMany(d, P, limit)
  \/ \E d \in Slots, P \in PropDicts, ttl \in Ttls : FindOne(d, P, ttl)
  \/ \E e \in Slots, k \in PropNames : \E v \in PropValues(k) : SetProp(e, k, v)
  \/ \E e \in Slots, ttl \in Ttls : Save(e, ttl)
  \/ \E e \in Slots : Delete(e)
  \/ \E r \in RowIds, n \in 1..MaxUuid, name \in Names : ExtInsert(r, n, name)
  \/ \E r \in RowIds : ExtDelete(r)
  \/ \E key \in DOMAIN cache : Expire(key)

Spec == Init /\ [][Next]_vars

\* ------------------------------------------- one caller, no other writer
\* The table holds rows written earlier, under identities uuid4 produced
\* earlier; the cache is empty.  Callers use create, find_many, find_one,
\* set_prop, save and delete, one call at a time; nothing else writes the
\* table, and cache entries leave the cache only by delete or by expiry.
TableRows(n) ==
  {[k \in PropNames |-> IF k = UUID_PROPERTY THEN Uuid(i) ELSE name] :
     i \in 1..(n - 1), name \in Names}

InitSequential ==
  /\ next_uuid \in 1..(MaxUuid + 1)
  /\ store \in [RowIds -> {NoEnt} \cup TableRows(next_uuid)]
  /\ cache = EmptyDict
  /\ ents = [s \in Slots |-> NoEnt]
  /\ last = [op |-> "init"]
  /\ rt = NoRt
  /\ inflight = [p \in Callers |-> Idle]

NextSequential ==
  \/ \E d \in Slots, P \in PropDicts : Create(d, P)
  \/ \E d \in Slots, P \in PropDicts, limit \in Limits : FindMany(d, P, limit)
  \/ \E d \in Slots, P \in PropDicts, ttl \in Ttls : FindOne(d, P, ttl)
  \/ \E e \in Slots, k \in PropNames : \E v \in PropValues(k) : SetProp(e, k, v)
  \/ \E e \in Slots, ttl \in Ttls : Save(e, ttl)
  \/ \E e \in Slots : Delete(e)
  \/ \E key \in DOMAIN cache : Expire(key)

SpecSequential == InitSequential /\ [][NextSequential]_vars

\* ------------------------------------------ several callers, step by step
\* Callers run save, delete and find_one by uuid at the same time.  A step is
\* one driver call of a method together with the code up to the next driver
\* call; a caller can fail between two driver calls of its method and then
\* takes no further step.  The table holds rows written earlier and the
\* cache is empty to start with.

\* the objects callers save and delete: an identity and a name; the callers
\* leave cache_ttl at its default
CallerObjects ==
  {BaseDataObject(P, EmptyDict) : P \in {Q \in PropDicts : DOMAIN Q = PropNames}}
Ready(p) == inflight[p].pc \in {"idle", "done"}
\* the True / False a method returns, where other methods return an object
Bool(b) == [bool |-> b]

InitConcurrent ==
  /\ next_uuid = MaxUuid + 1
  /\ store \in [RowIds -> {NoEnt} \cup TableRows(next_uuid)]
  /\ cache = EmptyDict
  /\ ents = [s \in Slots |-> NoEnt]
  /\ last = [op |-> "init"]
  /\ rt = NoRt
  /\ inflight = [p \in Callers |-> Idle]

\* save(), lines 289-299: update_by_fields and the look at its count
SaveUpdate(p, obj, cache_ttl) ==
  /\ Ready(p)
  /\ LET r == save_update(store, cache, obj, cache_ttl)
     IN  /\ store' = r.store
         /\ cache' = r.cache
         /\ inflight' = [inflight EXCEPT ![p] =
               [pc |-> IF r.result # NoEnt THEN "set_to_cache" ELSE "done",
                op |-> "save", obj |-> obj, ttl |-> cache_ttl,
                count |-> r.count, ret |-> NoEnt]]
  /\ UNCHANGED <<ents, next_uuid, last, rt>>

\* save(), lines 309-311: result.__set_to_cache(ttl=cache_ttl); return result
SaveSetToCache(p) ==
  /\ inflight[p].pc = "set_to_cache"
  /\ cache' = set_to_cache(cache, inflight[p].obj, inflight[p].ttl)
  /\ inflight' = [inflight EXCEPT ![p].pc = "done", ![p].ret = inflight[p].obj]
  /\ UNCHANGED <<store, ents, next_uuid, last, rt>>

\* delete(), lines 323-331: delete_by_fields and the look at its count
DeleteRecords(p, obj) ==
  /\ Ready(p)
  /\ LET where_props == [k \in {UUID_PROPERTY} |-> get_prop(obj, UUID_PROPERTY)]
         record_delete_count == delete_by_fields_count(store, where_props)
     IN  /\ store' = delete_by_fields(store, where_props)
         /\ inflight' = [inflight EXCEPT ![p] =
               [pc |-> IF delete_ok(record_delete_count) THEN "delete_from_cache"
                       ELSE "done",
                op |-> "delete", obj |-> obj, ttl |-> NoTtl,
                count |-> record_delete_count, ret |-> Bool(FALSE)]]
  /\ UNCHANGED <<cache, ents, next_uuid, last, rt>>

\* delete(), lines 328-329: self.__delete_from_cache(); return True
DeleteDeleteFromCache(p) ==
  /\ inflight[p].pc = "delete_from_cache"
  /\ cache' = delete_from_cache(cache, inflight[p].obj)
  /\ inflight' = [inflight EXCEPT ![p].pc = "done", ![p].ret = Bool(TRUE)]
  /\ UNCHANGED <<store, ents, next_uuid, last, rt>>

\* find_one({uuid: uuid}), lines 201-207: the cache get and the hydration
FindOneLoad(p, uuid, cache_ttl) ==
  /\ Ready(p)
  /\ LET instance == load_from_cache_by_uuid(cache, uuid)
     IN  inflight' = [inflight EXCEPT ![p] =
           [pc |-> IF instance # NoEnt THEN "re_set" ELSE "find_many",
            op |-> "find_one",
            obj |-> IF instance # NoEnt THEN instance
                    ELSE BaseDataObject([k \in {UUID_PROPERTY} |-> uuid], EmptyDict),
            ttl |-> cache_ttl, count |-> 0, ret |-> NoEnt]]
  /\ UNCHANGED <<store, cache, ents, next_uuid, last, rt>>

\* find_one, lines 208-210: instance.__set_to_cache(ttl=cache_ttl); return instance
FindOneSetToCache(p) ==
  /\ inflight[p].pc = "re_set"
  /\ cache' = set_to_cache(cache, inflight[p].obj, inflight[p].ttl)
  /\ inflight' = [inflight EXCEPT ![p].pc = "done", ![p].ret = inflight[p].obj]
  /\ UNCHANGED <<store, ents, next_uuid, last, rt>>

\* find_one, lines 212-222: find_many with limit 1 after a miss
FindOneFindMany(p) ==
  /\ inflight[p].pc = "find_many"
  /\ LET instance_list ==
           find_many(store, [k \in {UUID_PROPERTY} |->
                               get_prop(inflight[p].obj, UUID_PROPERTY)], 1)
     IN  inflight' = [inflight EXCEPT
           ![p].pc = "done",
           ![p].count = Len(instance_list),
           ![p].ret = IF Len(instance_list) > 0 THEN instance_list[1] ELSE NoEnt]
  /\ UNCHANGED <<store, cache, ents, next_uuid, last, rt>>

\* the caller's process dies, or a driver call raises, between two driver
\* calls of a method
Crash(p) ==
  /\ inflight[p].pc \in {"set_to_cache", "delete_from_cache", "re_set", "find_many"}
  /\ inflight' = [inflight EXCEPT ![p] =
        [@ EXCEPT !.pc = "crashed", !.ret = [at |-> inflight[p].pc]]]
  /\ UNCHANGED <<store, cache, ents, next_uuid, last, rt>>

NextConcurrent ==
  \/ \E p \in Callers, obj \in CallerObjects : SaveUpdate(p, obj, NoTtl)
  \/ \E p \in Callers : SaveSetToCache(p)
  \/ \E p \in Callers, obj \in CallerObjects : DeleteRecords(p, obj)
  \/ \E p \in Callers : DeleteDeleteFromCache(p)
  \/ \E p \in Callers, uuid \in Uuids : FindOneLoad(p, uuid, NoTtl)
  \/ \E p \in Callers : FindOneSetToCache(p)
  \/ \E p \in Callers : FindOneFindMany(p)
  \/ \E p \in Callers : Crash(p)

SpecConcurrent == InitConcurrent /\ [][NextConcurrent]_vars

\* ------------------------------------ objects built by the caller, helpers
\* The constructor and the cache helpers are public too.  This specification
\* starts from a table that holds one row and lets a caller build objects
\* with a metadata_dict of the caller's choice and use the cache helpers
\* directly, next to set_prop, save, delete and find_one.

\* the metadata_dict arguments callers pass: recognised keys and others
MetadataDicts ==
  {EmptyDict,
   [k \in {RECORD_EXISTS_METADATA, "source"} |->
      IF k = RECORD_EXISTS_METADATA THEN TRUE ELSE "import"]}

\* the prop_dict arguments callers of the constructor pass: an identity
IdentityDicts == {Q \in PropDicts : DOMAIN Q = {UUID_PROPERTY}}

\* the objects a caller can put in a dataobjects list
DataObjects ==
  {ents[e] : e \in {x \in Slots : ents[x] # NoEnt}}
    \cup {BaseDataObject(P, EmptyDict) : P \in IdentityDicts}
UuidsOf(dataobjects) ==
  [i \in 1..Len(dataobjects) |-> get_prop(dataobjects[i], UUID_PROPERTY)]
ListsOf(S) == UNION {[1..n -> S] : n \in 0..MaxBatch}

InitHelpers ==
  /\ store = [r \in RowIds |->
                IF r = 1 THEN [k \in PropNames |->
                                 IF k = UUID_PROPERTY THEN Uuid(1) ELSE "a"]
                ELSE NoEnt]
  /\ cache = EmptyDict
  /\ ents = [s \in Slots |-> NoEnt]
  /\ next_uuid = MaxUuid + 1
  /\ last = [op |-> "init"]
  /\ rt = NoRt
  /\ inflight = [p \in Callers |-> Idle]

\* obj = cls(prop_dict, metadata_dict, ...), kept in slot d; the helpers need
\* an object with a uuid
Construct(d, P, M) ==
  /\ UUID_PROPERTY \in DOMAIN P /\ Known(P)
  /\ LET obj == BaseDataObject(P, M)
     IN  /\ ents' = [ents EXCEPT ![d] = obj]
         /\ last' = [op |-> "__init__", slot |-> d, prop_dict |-> P,
                     metadata_dict |-> M, ret |-> obj, calls |-> <<>>]
  /\ rt' = NoRt
  /\ UNCHANGED <<store, cache, next_uuid, inflight>>

\* ents[e].set_to_cache(ttl)
SetToCache(e, ttl) ==
  /\ ents[e] # NoEnt
  /\ cache' = set_to_cache(cache, ents[e], ttl)
  /\ last' = [op |-> "set_to_cache", slot |-> e, ttl |-> ttl, calls |-> <<"cache.set">>]
  /\ rt' = NoRt
  /\ UNCHANGED <<store, ents, next_uuid, inflight>>

\* ents[e].delete_from_cache()
DeleteFromCache(e) ==
  /\ ents[e] # NoEnt
  /\ cache' = delete_from_cache(cache, ents[e])
  /\ last' = [op |-> "delete_from_cache", slot |-> e, calls |-> <<"cache.delete">>]
  /\ rt' = NoRt
  /\ UNCHANGED <<store, ents, next_uuid, inflight>>

\* cls.set_batch_to_cache(dataobjects, ttl)
SetBatchToCache(dataobjects, ttl) ==
  /\ cache' = set_batch_to_cache(cache, dataobjects, ttl)
  /\ last' = [op |-> "set_batch_to_cache", uuids |-> UuidsOf(dataobjects), ttl |-> ttl,
              keys |-> DOMAIN set_batch_to_cache_items(dataobjects),
              calls |-> <<"cache.batch_set">>]
  /\ rt' = NoRt
  /\ UNCHANGED <<store, ents, next_uuid, inflight>>

\* cls.delete_batch_from_cache(dataobjects)
DeleteBatchFromCache(dataobjects) ==
  /\ cache' = delete_batch_from_cache(cache, dataobjects)
  /\ last' = [op |-> "delete_batch_from_cache", uuids |-> UuidsOf(dataobjects),
              keys |-> delete_batch_from_cache_keys(dataobjects),
              calls |-> <<"cache.batch_delete">>]
  /\ rt' = NoRt
  /\ UNCHANGED <<store, ents, next_uuid, inflight>>

\* obj = cls.load_from_cache_by_uuid(uuid), the caller keeping obj in slot d
LoadFromCacheByUuid(d, uuid) ==
  /\ LET r == load_from_cache_by_uuid_call(cache, uuid)
     IN  /\ cache' = r.cache
         /\ ents' = IF r.ret = NoEnt THEN ents ELSE [ents EXCEPT ![d] = r.ret]
         /\ last' = [op |-> "load_from_cache_by_uuid", slot |-> d, uuid |-> uuid,
                     ret |-> r.ret, calls |-> r.calls]
  /\ rt' = NoRt
  /\ UNCHANGED <<store, next_uuid, inflight>>

\* cls.load_from_cache_by_uuids(uuids)
LoadFromCacheByUuids(uuids) ==
  /\ last' = [op |-> "load_from_cache_by_uuids", uuids |-> uuids,
              keys |-> load_from_cache_by_uuids_keys(uuids),
              ret |-> load_from_cache_by_uuids(cache, uuids),
              calls |-> <<"cache.batch_get">>]
  /\ rt' = NoRt
  /\ UNCHANGED <<store, cache, ents, next_uuid, inflight>>

NextHelpers ==
  \/ \E d \in Slots, P \in IdentityDicts, M \in MetadataDicts : Construct(d, P, M)
  \/ \E e \in Slots, ttl \in Ttls : SetToCache(e, ttl)
  \/ \E e \in Slots : DeleteFromCache(e)
  \/ \E dataobjects \in ListsOf(DataObjects), ttl \in Ttls :
       SetBatchToCache(dataobjects, ttl)
  \/ \E dataobjects \in ListsOf(DataObjects) : DeleteBatchFromCache(dataobjects)
  \/ \E d \in Slots, uuid \in Uuids : LoadFromCacheByUuid(d, uuid)
  \/ \E uuids \in ListsOf(Uuids) : LoadFromCacheByUuids(uuids)
  \/ \E e \in Slots, k \in PropNames : \E v \in PropValues(k) : SetProp(e, k, v)
  \/ \E e \in Slots, ttl \in Ttls : Save(e, ttl)
  \/ \E e \in Slots : Delete(e)
  \/ \E d \in Slots, P \in PropDicts, ttl \in Ttls : FindOne(d, P, ttl)
  \/ \E key \in DOMAIN cache : Expire(key)

SpecHelpers == InitHelpers /\ [][NextHelpers]_vars

\* ------------------------------------------------------------ properties
\* what the properties read off a state
CacheKeyOf(uuid) == TABLE_NAME \o "_uuid=" \o uuid
RowsWithUuid(st, uuid) ==
  {r \in RowIds : st[r] # NoEnt /\ st[r][UUID_PROPERTY] = uuid}
DefaultMetadata ==
  [k \in {"record_exists", "created_ts", "updated_ts"} |->
     IF k = "record_exists" THEN FALSE ELSE None]
InSeq(x, seq) == \E i \in 1..Len(seq) : seq[i] = x

\* C1 - write-through: when save() returns a data object, the cache entry
\* under the key of its uuid holds its state and metadata, with the ttl the
\* caller gave, or the default ttl when the caller gave none.
C1_WriteThrough ==
  (last.op = "save" /\ last.ret # NoEnt) =>
    LET key == CacheKeyOf(last.ret.state[UUID_PROPERTY])
    IN  /\ key \in DOMAIN cache
        /\ cache[key].state = last.ret.state
        /\ cache[key].state = ents[last.slot].state
        /\ cache[key].metadata = last.ret.metadata
        /\ cache[key].ttl = IF last.ttl = NoTtl THEN DEFAULT_CACHE_TTL ELSE last.ttl

C1_Witness ==
  /\ last.op = "save" /\ last.ret # NoEnt /\ last.ttl = 0
  /\ NameProperty \in DOMAIN last.ret.state

\* C2 - save() on an object whose state holds a uuid returns the object
\* exactly when the table held one row with that uuid; with no such row or
\* with several it returns None and neither reads nor writes the cache; and
\* save() right after create() returns None.
C2_SaveUpdateMode ==
  [][ (last'.op = "save" /\ UUID_PROPERTY \in DOMAIN ents[last'.slot].state) =>
        LET n == Cardinality(RowsWithUuid(store, ents[last'.slot].state[UUID_PROPERTY]))
        IN  /\ (last'.ret # NoEnt) <=> (n = 1)
            /\ (n # 1) => /\ last'.ret = NoEnt
                          /\ cache' = cache
                          /\ last'.calls = <<"db.update_by_fields">>
            /\ (rt'.stage = "saved") => (n = 0 /\ last'.ret = NoEnt) ]_vars

C2_Witness ==
  /\ last.op = "save" /\ last.ret = NoEnt
  /\ Cardinality(RowsWithUuid(store, ents[last.slot].state[UUID_PROPERTY])) = 2

\* C3 - delete() returns TRUE exactly when the table held at least one row
\* with the object's uuid, and then the cache has no entry under the key of
\* that uuid, so that a cache load of that uuid right after gives None.
C3_DeleteInvalidates ==
  [][ (last'.op = "delete") =>
        LET uuid == ents[last'.slot].state[UUID_PROPERTY]
            n == Cardinality(RowsWithUuid(store, uuid))
        IN  /\ last'.ret = (n >= 1)
            /\ last'.ret => /\ CacheKeyOf(uuid) \notin DOMAIN cache'
                            /\ load_from_cache_by_uuid(cache', uuid) = NoEnt
                            /\ RowsWithUuid(store', uuid) = {} ]_vars

C3_Witness ==
  /\ last.op = "delete" /\ last.ret = TRUE /\ last.cached
  /\ CacheKeyOf(ents[last.slot].state[UUID_PROPERTY]) \notin DOMAIN cache

\* C4 - delete() that finds no row with the object's uuid returns FALSE and
\* leaves the cache as it was, the entry of that uuid included.
C4_DeleteMissKeepsCache ==
  [][ (last'.op = "delete"
        /\ RowsWithUuid(store, ents[last'.slot].state[UUID_PROPERTY]) = {}) =>
        /\ last'.ret = FALSE
        /\ cache' = cache ]_vars

C4_Witness ==
  /\ last.op = "delete" /\ last.ret = FALSE /\ last.cached
  /\ CacheKeyOf(ents[last.slot].state[UUID_PROPERTY]) \in DOMAIN cache

\* C5 - a find_one on the uuid alone that misses the cache and finds the
\* record in the table leaves the record in the cache under the key of that
\* uuid.
C5_CacheFillOnRead ==
  (/\ last.op = "find_one"
   /\ DOMAIN last.prop_dict = {UUID_PROPERTY}
   /\ last.calls = <<"cache.get", "db.find_by_fields">>
   /\ last.ret # NoEnt) =>
     /\ CacheKeyOf(last.prop_dict[UUID_PROPERTY]) \in DOMAIN cache
     /\ cache[CacheKeyOf(last.prop_dict[UUID_PROPERTY])].state = last.ret.state

\* C6 - a find_one on the uuid alone whose key is in the cache returns the
\* object made of the cached state and metadata, sets the same entry again
\* with the ttl of the call (the default ttl when none is given), and calls
\* the cache only, never the table.
C6_CacheHit ==
  [][ (/\ last'.op = "find_one"
       /\ DOMAIN last'.prop_dict = {UUID_PROPERTY}
       /\ CacheKeyOf(last'.prop_dict[UUID_PROPERTY]) \in DOMAIN cache) =>
        LET key == CacheKeyOf(last'.prop_dict[UUID_PROPERTY])
        IN  /\ last'.ret # NoEnt
            /\ last'.ret.state = cache[key].state
            /\ last'.ret.metadata = cache[key].metadata
            /\ last'.calls = <<"cache.get", "cache.set">>
            /\ DOMAIN cache' = DOMAIN cache
            /\ cache'[key] = [cache[key] EXCEPT !.ttl =
                 IF last'.ttl = NoTtl THEN DEFAULT_CACHE_TTL ELSE last'.ttl]
            /\ store' = store ]_vars

C6_Witness ==
  /\ last.op = "find_one" /\ last.calls = <<"cache.get", "cache.set">>
  /\ last.ttl = NoTtl
  /\ cache[CacheKeyOf(last.prop_dict[UUID_PROPERTY])].ttl = DEFAULT_CACHE_TTL
  /\ RowsWithUuid(store, last.prop_dict[UUID_PROPERTY]) = {}

\* C7 - find_many never calls the cache; find_one calls the cache exactly
\* when its filter is the uuid alone, whatever the cache holds.
C7_CacheBypass ==
  /\ (last.op = "find_many") => last.calls = <<"db.find_by_fields">>
  /\ (last.op = "find_one") =>
       /\ InSeq("cache.get", last.calls) <=> (DOMAIN last.prop_dict = {UUID_PROPERTY})
       /\ (DOMAIN last.prop_dict # {UUID_PROPERTY}) =>
            last.calls = <<"db.find_by_fields">>

C7_Witness ==
  /\ last.op = "find_one"
  /\ DOMAIN last.prop_dict = {UUID_PROPERTY, NameProperty}
  /\ CacheKeyOf(last.prop_dict[UUID_PROPERTY]) \in DOMAIN cache
  /\ last.ret # NoEnt

\* C8 - round trip: create(P) with no uuid in P, then save(), then
\* find_one on the uuid of the object returns an object whose state agrees
\* with P on every key of P.
C8_RoundTrip ==
  (rt.stage = "found" /\ UUID_PROPERTY \notin DOMAIN rt.prop_dict) =>
    /\ last.ret # NoEnt
    /\ \A k \in DOMAIN rt.prop_dict : last.ret.state[k] = rt.prop_dict[k]

\* C9 - create(P) leaves the table and the cache as they were, calls no
\* driver, and returns an object whose state is P with a uuid no object, row
\* or cache entry had before under the key uuid, record_exists FALSE and no
\* created_ts or updated_ts.
C9_CreateInMemory ==
  [][ (last'.op = "create") =>
        LET obj == last'.ret
            P == last'.prop_dict
        IN  /\ store' = store /\ cache' = cache
            /\ last'.calls = <<>>
            /\ ents'[last'.slot] = obj
            /\ DOMAIN obj.state = DOMAIN P \cup {UUID_PROPERTY}
            /\ \A k \in DOMAIN P \ {UUID_PROPERTY} : obj.state[k] = P[k]
            /\ obj.metadata = DefaultMetadata
            /\ RowsWithUuid(store, obj.state[UUID_PROPERTY]) = {}
            /\ CacheKeyOf(obj.state[UUID_PROPERTY]) \notin DOMAIN cache
            /\ \A s \in Slots : ents[s] # NoEnt =>
                 ents[s].state[UUID_PROPERTY] # obj.state[UUID_PROPERTY]
            /\ UUID_PROPERTY \in DOMAIN P => P[UUID_PROPERTY] # obj.state[UUID_PROPERTY]
    ]_vars

C9_Witness ==
  /\ last.op = "create"
  /\ DOMAIN last.prop_dict = {UUID_PROPERTY, NameProperty}
  /\ \E r \in RowIds : store[r] # NoEnt
  /\ DOMAIN cache # {}

\* C10 - identity stability: no set_prop, save or delete on an object
\* changes the value its state holds under uuid.
C10_IdentityStable ==
  [][ (last'.op \in {"set_prop", "save", "delete"}) =>
        ents'[last'.slot].state[UUID_PROPERTY]
          = ents[last'.slot].state[UUID_PROPERTY] ]_vars

\* C11 - setter safety: set_prop(k, v) on a key of the state returns TRUE
\* and changes state[k] to v and nothing else; on a key the state lacks it
\* returns FALSE and leaves the state, its key set included, as it was; in
\* both cases the metadata, the table and the cache are untouched and no
\* driver is called.
C11_SetterSafety ==
  [][ (last'.op = "set_prop") =>
        LET old == ents[last'.slot]
            new == ents'[last'.slot]
            k == last'.prop_name
        IN  /\ last'.ret = (k \in DOMAIN old.state)
            /\ DOMAIN new.state = DOMAIN old.state
            /\ \A j \in DOMAIN old.state \ {k} : new.state[j] = old.state[j]
            /\ (k \in DOMAIN old.state) => new.state[k] = last'.prop_value
            /\ new.metadata = old.metadata
            /\ store' = store /\ cache' = cache
            /\ last'.calls = <<>> ]_vars

C11_Witness ==
  /\ last.op = "set_prop" /\ last.ret = FALSE
  /\ last.prop_name = NameProperty
  /\ DOMAIN ents[last.slot].state = {UUID_PROPERTY}
  /\ DOMAIN cache # {}

\* C12 - record_exists tells whether the table holds a row for the object:
\* FALSE after create, TRUE in every object find_many or find_one makes of a
\* table record, TRUE in the object a successful save returns.
C12_RecordExists ==
  /\ (last.op = "create") => last.ret.metadata[RECORD_EXISTS_METADATA] = FALSE
  /\ (last.op = "find_many") =>
       \A i \in 1..Len(last.ret) : last.ret[i].metadata[RECORD_EXISTS_METADATA] = TRUE
  /\ (last.op = "find_one" /\ last.ret # NoEnt
        /\ InSeq("db.find_by_fields", last.calls)) =>
       last.ret.metadata[RECORD_EXISTS_METADATA] = TRUE
  /\ (last.op = "save" /\ last.ret # NoEnt) =>
       last.ret.metadata[RECORD_EXISTS_METADATA] = TRUE

\* C13 (as first stated) - no partial success in save: either the update
\* reached the table and the cache entry was written, or neither the table
\* nor the cache changed, whatever the number of rows the update matched.
C13_NoPartialSuccess ==
  [][ (last'.op = "save") =>
        LET n == Cardinality(RowsWithUuid(store, ents[last'.slot].state[UUID_PROPERTY]))
        IN  \/ (n >= 1 /\ InSeq("cache.set", last'.calls))
            \/ (store' = store /\ cache' = cache) ]_vars

\* C13 (amended) - save with no matching row changes neither the table nor
\* the cache; with one matching row it writes the state to that row and to
\* the cache; with several matching rows it writes the state to all of them,
\* returns None and leaves the cache as it was.
C13_SaveOutcomes ==
  [][ (last'.op = "save") =>
        LET obj == ents[last'.slot]
            rows == RowsWithUuid(store, obj.state[UUID_PROPERTY])
            n == Cardinality(rows)
        IN  /\ \A r \in RowIds \ rows : store'[r] = store[r]
            /\ \A r \in rows : \A k \in DOMAIN store[r] :
                 store'[r][k] = IF k \in DOMAIN obj.state THEN obj.state[k]
                                ELSE store[r][k]
            /\ (n = 0) => (store' = store /\ cache' = cache /\ last'.ret = NoEnt)
            /\ (n = 1) => /\ last'.ret = obj
                          /\ cache'[CacheKeyOf(obj.state[UUID_PROPERTY])].state = obj.state
                          /\ last'.calls = <<"db.update_by_fields", "cache.set">>
            /\ (n > 1) => /\ last'.ret = NoEnt
                          /\ cache' = cache
                          /\ last'.calls = <<"db.update_by_fields">> ]_vars

C13_Witness ==
  /\ last.op = "save" /\ last.ret = NoEnt
  /\ \A r \in RowIds : /\ store[r] # NoEnt
                       /\ store[r][UUID_PROPERTY] = ents[last.slot].state[UUID_PROPERTY]
                       /\ NameProperty \in DOMAIN ents[last.slot].state
                       /\ store[r][NameProperty] = ents[last.slot].state[NameProperty]
  /\ rt.stage = "none"

\* C16 - load_from_cache_by_uuid(uuid) makes one cache get on the key
\* derived from uuid and nothing else: it returns the object hydrated from
\* the cached state and metadata when the key is present and None when it is
\* not, calls no store operation and leaves the cache as it was.
C16_LoadFrame ==
  [][ (last'.op = "load_from_cache_by_uuid") =>
        LET key == CacheKeyOf(last'.uuid)
        IN  /\ last'.calls = <<"cache.get">>
            /\ store' = store /\ cache' = cache
            /\ (key \in DOMAIN cache) =>
                 /\ last'.ret # NoEnt
                 /\ last'.ret.state = cache[key].state
                 /\ last'.ret.metadata = cache[key].metadata
                 /\ ents'[last'.slot] = last'.ret
            /\ (key \notin DOMAIN cache) => (last'.ret = NoEnt /\ ents' = ents) ]_vars

C16_Witness ==
  /\ last.op = "load_from_cache_by_uuid" /\ last.ret # NoEnt
  /\ last.ret.metadata[RECORD_EXISTS_METADATA] = TRUE
  /\ RowsWithUuid(store, last.uuid) = {}

\* C17 - the cache key is TABLE_NAME, "_uuid=" and the uuid; different uuids
\* give different keys; every entry of the cache sits under the key of the
\* uuid in its state, whichever of set_to_cache, set_batch_to_cache or save
\* wrote it; load_from_cache_by_uuid finds every entry under the uuid of its
\* state; the batch helpers address the keys of the uuids they are given, and
\* delete_from_cache leaves no entry under the key of the object's uuid.
C17_CacheKey ==
  /\ \A u \in Uuids : construct_cache_key(u) = TABLE_NAME \o "_uuid=" \o u
  /\ \A u, v \in Uuids : u # v => construct_cache_key(u) # construct_cache_key(v)
  /\ \A key \in DOMAIN cache :
       /\ key = CacheKeyOf(cache[key].state[UUID_PROPERTY])
       /\ load_from_cache_by_uuid(cache, cache[key].state[UUID_PROPERTY]) # NoEnt
  /\ (last.op \in {"set_batch_to_cache", "delete_batch_from_cache"}) =>
       last.keys = {CacheKeyOf(last.uuids[i]) : i \in 1..Len(last.uuids)}
  /\ (last.op = "set_batch_to_cache") => last.keys \subseteq DOMAIN cache
  /\ (last.op = "delete_batch_from_cache") => last.keys \cap DOMAIN cache = {}
  /\ (last.op = "load_from_cache_by_uuids") =>
       last.keys = {CacheKeyOf(last.uuids[i]) : i \in 1..Len(last.uuids)}
  /\ (last.op = "delete_from_cache") =>
       CacheKeyOf(ents[last.slot].state[UUID_PROPERTY]) \notin DOMAIN cache
  /\ (last.op = "set_to_cache") =>
       CacheKeyOf(ents[last.slot].state[UUID_PROPERTY]) \in DOMAIN cache

C17_Witness ==
  /\ last.op = "delete_batch_from_cache"
  /\ Len(last.uuids) = 2 /\ Cardinality(last.keys) = 1
  /\ Cardinality(DOMAIN cache) = 1

\* C18 - the metadata of every object, and of every cache entry, has the
\* keys record_exists, created_ts and updated_ts and no others; the
\* constructor takes the recognised keys of metadata_dict, drops the others
\* and gives a missing key its default (FALSE, None, None).
C18_MetadataKeys ==
  /\ \A e \in Slots : ents[e] # NoEnt => DOMAIN ents[e].metadata = METADATA_FIELDS
  /\ \A key \in DOMAIN cache : DOMAIN cache[key].metadata = METADATA_FIELDS
  /\ (last.op \in {"__init__", "load_from_cache_by_uuid", "find_one", "save"}
        /\ last.ret # NoEnt) =>
       DOMAIN last.ret.metadata = METADATA_FIELDS
  /\ (last.op = "__init__") =>
       \A k \in METADATA_FIELDS :
         last.ret.metadata[k] =
           IF k \in DOMAIN last.metadata_dict THEN last.metadata_dict[k]
           ELSE DefaultMetadata[k]

C18_Witness ==
  /\ last.op = "find_one" /\ last.ret # NoEnt
  /\ last.calls = <<"cache.get", "cache.set">>
  /\ last.ret.metadata[RECORD_EXISTS_METADATA] = TRUE
  /\ last.ret.metadata[CREATED_TS_METADATA] = None

UuidOf(call) == call.obj.state[UUID_PROPERTY]
\* no caller is inside a method
Quiescent == \A p \in Callers : Ready(p)
\* the step is the first driver call of a save by caller p
IsSaveUpdate(p) ==
  /\ Ready(p) /\ inflight'[p] # inflight[p] /\ inflight'[p].op = "save"
\* the columns of the rows with that uuid equal the state, key by key
RowsHold(st, state) ==
  \A r \in RowsWithUuid(st, state[UUID_PROPERTY]) :
    \A k \in DOMAIN state : st[r][k] = state[k]

\* C14 (as first stated) - a save that fails between its table update and
\* its cache write leaves the cache entry of the uuid absent or at a value the
\* table holds: when the entry is there, a row with the uuid has its columns
\* equal to the cached state.  Stated for a caller that is alone: no other
\* caller has called a method.
C14_InterruptedSave ==
  \A p \in Callers :
    ( /\ inflight[p].pc = "crashed" /\ inflight[p].op = "save"
      /\ \A q \in Callers \ {p} : inflight[q].pc = "idle" ) =>
      LET key == CacheKeyOf(UuidOf(inflight[p]))
      IN  key \in DOMAIN cache =>
            /\ RowsWithUuid(store, UuidOf(inflight[p])) # {}
            /\ RowsHold(store, cache[key].state)

\* C14 (amended) - within save the table update comes first and the cache write second,
\* and only after an update of exactly one row: the update step leaves the
\* cache as it was; the cache-write step starts from a count of 1, leaves the
\* table as it was and puts the saved state under the key; a save that fails
\* between the two steps changes neither table nor cache at that point and
\* takes no further step, so the cache entry is what the other steps left
\* there, never the state this save was to write.
C14_StoreBeforeCache ==
  [][ \A p \in Callers :
        /\ IsSaveUpdate(p) =>
             /\ cache' = cache
             /\ inflight'[p].pc \in {"set_to_cache", "done"}
             /\ (inflight'[p].pc = "set_to_cache") = (inflight'[p].count = 1)
        /\ (inflight[p].pc = "set_to_cache" /\ inflight'[p].pc = "done") =>
             /\ inflight[p].op = "save" /\ inflight[p].count = 1
             /\ store' = store
             /\ cache'[CacheKeyOf(UuidOf(inflight[p]))].state = inflight[p].obj.state
        /\ (inflight[p].pc = "set_to_cache" /\ inflight'[p].pc = "crashed") =>
             (store' = store /\ cache' = cache)
        /\ (inflight[p].pc = "crashed") => inflight'[p] = inflight[p]
        /\ (inflight[p].pc = "set_to_cache") => inflight'[p].pc # "idle" ]_vars

C14_Witness ==
  \E p \in Callers :
    /\ inflight[p].pc = "crashed" /\ inflight[p].op = "save"
    /\ inflight[p].ret = [at |-> "set_to_cache"]
    /\ \A q \in Callers \ {p} : inflight[q].pc = "idle"
    /\ RowsWithUuid(store, UuidOf(inflight[p])) # {}
    /\ RowsHold(store, inflight[p].obj.state)
    /\ CacheKeyOf(UuidOf(inflight[p])) \in DOMAIN cache
    /\ cache[CacheKeyOf(UuidOf(inflight[p]))].state # inflight[p].obj.state

\* C15 - two saves of the same uuid at once: while one caller's save is
\* between its table update and its cache write, another caller's save on a
\* table that holds one row with that uuid updates that row to its own state
\* and goes on to its cache write, and each save that reaches its cache write
\* returns its object; the row holds the state of the update applied last and
\* neither save is refused.
C15_LastUpdateWins ==
  [][ \A p, q \in Callers :
        /\ ( /\ p # q
             /\ inflight[p].op = "save" /\ inflight[p].pc = "set_to_cache"
             /\ IsSaveUpdate(q)
             /\ UuidOf(inflight'[q]) = UuidOf(inflight[p])
             /\ Cardinality(RowsWithUuid(store, UuidOf(inflight[p]))) = 1 ) =>
             /\ inflight'[q].pc = "set_to_cache"
             /\ Cardinality(RowsWithUuid(store', UuidOf(inflight[p]))) = 1
             /\ RowsHold(store', inflight'[q].obj.state)
             /\ inflight'[p] = inflight[p]
        /\ ( /\ inflight[p].op = "save" /\ inflight[p].pc = "set_to_cache"
             /\ inflight'[p].pc = "done" ) =>
             inflight'[p].ret = inflight[p].obj ]_vars

C15_Witness ==
  \E p, q \in Callers :
    /\ p # q
    /\ inflight[p].op = "save" /\ inflight[p].pc = "done"
    /\ inflight[q].op = "save" /\ inflight[q].pc = "done"
    /\ inflight[p].ret = inflight[p].obj /\ inflight[q].ret = inflight[q].obj
    /\ UuidOf(inflight[p]) = UuidOf(inflight[q])
    /\ NameProperty \in DOMAIN inflight[p].obj.state
    /\ NameProperty \in DOMAIN inflight[q].obj.state
    /\ inflight[p].obj.state # inflight[q].obj.state
    /\ RowsWithUuid(store, UuidOf(inflight[q])) # {}
    /\ RowsHold(store, inflight[q].obj.state)
    /\ cache[CacheKeyOf(UuidOf(inflight[p]))].state = inflight[p].obj.state

\* C20 - the stale-cache race: when a caller is about to make the cache write
\* of its save or of its find_one hit and another caller's delete of the same
\* uuid has returned TRUE in the meantime, so that the table holds no row
\* with the uuid and the cache no entry under its key, the write is made all
\* the same: after it the cache holds an entry for the uuid and the table
\* holds no row.
C20_StaleCacheRace ==
  [][ \A p, q \in Callers :
        ( /\ p # q
          /\ inflight[p].pc \in {"set_to_cache", "re_set"}
          /\ inflight'[p].pc = "done"
          /\ inflight[q].op = "delete" /\ inflight[q].pc = "done"
          /\ inflight[q].ret = Bool(TRUE)
          /\ UuidOf(inflight[q]) = UuidOf(inflight[p])
          /\ RowsWithUuid(store, UuidOf(inflight[p])) = {}
          /\ CacheKeyOf(UuidOf(inflight[p])) \notin DOMAIN cache ) =>
          /\ CacheKeyOf(UuidOf(inflight[p])) \in DOMAIN cache'
          /\ cache'[CacheKeyOf(UuidOf(inflight[p]))].state = inflight[p].obj.state
          /\ RowsWithUuid(store', UuidOf(inflight[p])) = {}
          /\ inflight'[p].ret = inflight[p].obj ]_vars

C20_Witness ==
  /\ Quiescent
  /\ \E p, q \in Callers :
       /\ inflight[p].op = "save" /\ inflight[p].ret = inflight[p].obj
       /\ inflight[q].op = "delete" /\ inflight[q].ret = Bool(TRUE)
       /\ UuidOf(inflight[q]) = UuidOf(inflight[p])
       /\ CacheKeyOf(UuidOf(inflight[p])) \in DOMAIN cache
       /\ RowsWithUuid(store, UuidOf(inflight[p])) = {}

====
